---------------------------- MODULE Spec2Model ----------------------------
(***************************************************************************)
(* A model of the IMG-TGBed gateway: the listing handler (onRequestGet:    *)
(* listAllKeys, fetchAllWithMetadata, buildItem) and the ingestion handler *)
(* (onRequestPost: checkAuth, processOne and the photo-variant selection). *)
(*                                                                         *)
(* The two handlers share no in-process state, so each is a specification  *)
(* of its own over the same variables:                                     *)
(*   SpecPhoto  getFileIdFromPhoto / getFileSizeFromPhoto on drawn inputs  *)
(*   SpecNorm   buildItem on drawn inputs                                  *)
(*   SpecList   one GET request against a store                            *)
(*   SpecPost   one POST request against the bot API and the store         *)
(*   Spec       one request, to either handler                              *)
(*                                                                         *)
(* JavaScript values are modelled by tagged values of one shape per slot,  *)
(* because the code tells null/undefined, the empty string and a non-empty *)
(* string apart (x || y, x != null, x ?? y).                               *)
(***************************************************************************)
EXTENDS Integers, Sequences, FiniteSets, TLC

VARIABLES
    phIn, phOut,        \* SpecPhoto: the sendPhoto result / the selection made
    nmIn, nmOut,        \* SpecNorm: buildItem's arguments / its outcome
    lreq,               \* SpecList: the request and its environment
    lpc,                \* SpecList: where onRequestGet stands
    keys, nextCursor,   \* listAllKeys: accumulated names / cursor of next call
    lastList,           \* the last kv.list() answer
    listCalls,          \* the cursors kv.list() was called with, in order
    keyNames,           \* fetchAllWithMetadata's argument
    bi,                 \* fetchAllWithMetadata's loop variable i
    results,            \* fetchAllWithMetadata's results
    slots,              \* Promise.all: the value each promise of the batch settled to
    inflight,           \* indices (into keyNames) of getWithMetadata calls in flight
    getCalls,           \* how often getWithMetadata was called per index
    batches,            \* the batches issued so far, each a sequence of indices
    doneOrder,          \* indices in the order their retrievals completed
    failure,            \* the error that reached onRequestGet's catch
    lresp,              \* SpecList: the response
    preq,               \* SpecPost: the request and its environment
    ppc,                \* SpecPost: where onRequestPost / processOne stands
    pidx,               \* index of the item being processed
    pres,               \* results pushed so far
    pcur,               \* processOne's locals across its awaits
    fetched,            \* per item: number of sendPhoto calls
    puts,               \* per item: number of env.img_url.put calls issued
    kvStore,            \* keys written to the store by put calls that resolved
    presp               \* SpecPost: the response

photoVars == <<phIn, phOut>>
normVars  == <<nmIn, nmOut>>
listVars  == <<lreq, lpc, keys, nextCursor, lastList, listCalls, keyNames, bi,
               results, slots, inflight, getCalls, batches, doneOrder,
               failure, lresp>>
postVars  == <<preq, ppc, pidx, pres, pcur, fetched, puts, kvStore, presp>>
vars      == <<photoVars, normVars, listVars, postVars>>

-----------------------------------------------------------------------------
(* Bounds of the model. *)

MaxPhotos == 3      \* photo variants in one sendPhoto result
MaxKeys == 5        \* keys held by the store
MaxItems == 2       \* items in one ingestion request

\* The width of one batch of concurrent getWithMetadata calls.  The source
\* sets BATCH_SIZE = 50 (part_000:14); every interleaving of a batch's
\* completions is explored here, so the width is scaled down and the claims
\* about batching are stated in terms of BATCH_SIZE.
BATCH_SIZE == 2

LIST_PAGE_SIZE == 1000

Min(a, b) == IF a < b THEN a ELSE b

-----------------------------------------------------------------------------
(* Photo-variant selection (upload_url.js 51-68).                          *)

\* A variant without file_size.
NoSize == -1
\* A missing or empty file_id (falsy), also what getFileIdFromPhoto returns
\* (null) when there is no variant.
NoFileId == 0

\* (v.file_size || 0)
SizeOr0(v) == IF v.file_size = NoSize THEN 0 ELSE v.file_size

\* A faulty reducer: >= keeps the earlier variant on equal sizes.
PickLargerKeepEarlier(prev, cur) == IF SizeOr0(prev) >= SizeOr0(cur) THEN prev ELSE cur

\* The reducer: (prev && (prev.file_size||0) > (cur.file_size||0)) ? prev : cur
\* prev is a variant object, hence truthy.
PickLarger(prev, cur) == IF SizeOr0(prev) > SizeOr0(cur) THEN prev ELSE cur

RECURSIVE ReduceFrom(_, _, _)
\* Array.prototype.reduce without an initial value: the accumulator starts
\* as photo[1] and the callback runs for photo[2], photo[3], ...
ReduceFrom(photo, acc, i) ==
    IF i > Len(photo) THEN acc
    ELSE ReduceFrom(photo, PickLarger(acc, photo[i]), i + 1)

Largest(photo) == ReduceFrom(photo, photo[1], 2)

\* !result.photo || !Array.isArray(result.photo) || result.photo.length === 0
NoVariants(result) == ~result.hasPhoto \/ Len(result.photo) = 0

getFileIdFromPhoto(result) ==
    IF NoVariants(result) THEN NoFileId ELSE Largest(result.photo).file_id

getFileSizeFromPhoto(result) ==
    IF NoVariants(result) THEN 0 ELSE SizeOr0(Largest(result.photo))

\* Inputs: variant i of a list carries file_id i, so that the selected
\* variant can be told from its file_id.
SizeChoices == {NoSize, 0, 100, 300}

PhotoLists ==
    UNION { { [i \in 1..n |-> [file_id |-> i, file_size |-> f[i]]] :
              f \in [1..n -> SizeChoices] } : n \in 0..MaxPhotos }

PhotoResults ==
    { [message_id |-> 7, hasPhoto |-> TRUE, photo |-> p] : p \in PhotoLists }
    \cup { [message_id |-> 7, hasPhoto |-> FALSE, photo |-> <<>>] }

NoSelection == [called |-> FALSE, file_id |-> NoFileId, file_size |-> 0]

PhotoIdle ==
    /\ phIn = [message_id |-> 0, hasPhoto |-> FALSE, photo |-> <<>>]
    /\ phOut = NoSelection

PhotoInit ==
    /\ phIn \in PhotoResults
    /\ phOut = NoSelection

\* processOne, lines 116 and 124: both selectors applied to the same result.
SelectPhoto ==
    /\ ~phOut.called
    /\ phOut' = [called |-> TRUE,
                 file_id |-> getFileIdFromPhoto(phIn),
                 file_size |-> getFileSizeFromPhoto(phIn)]
    /\ UNCHANGED <<phIn, normVars, listVars, postVars>>

-----------------------------------------------------------------------------
(* Record Normalizer (part_000 40-58).                                     *)

\* A string-valued field: absent (undefined/null) or a string, maybe empty.
FNone == [p |-> FALSE, s |-> ""]
FStr(s) == [p |-> TRUE, s |-> s]
\* JavaScript truthiness of such a field, as || tests it.
Truthy(f) == f.p /\ f.s # ""

\* A timestamp-valued field: absent, a number, or a string.  A string that
\* parseInt(.., 10) reads as n carries n >= 0; any other string carries -1.
TNull == [k |-> "null", n |-> 0]
TNum(n) == [k |-> "num", n |-> n]
TStr(n) == [k |-> "str", n |-> n]
NaN == [k |-> "nan", n |-> 0]

parseInt(v) == IF v.n >= 0 THEN TNum(v.n) ELSE NaN

\* The stored attribute bag; has = FALSE is a key without metadata.
NoMeta == [has |-> FALSE, fileName |-> FNone, TimeStamp |-> TNull, storageType |-> FNone]
\* metadata || {}
MetaOrEmpty(metadata) == IF metadata.has THEN metadata ELSE NoMeta

\* What a value text parses to.
EmptyObj == [fileName |-> FNone, uploadTime |-> TNull, TimeStamp |-> TNull]

\* A value text, by what it holds: kind "null" is no value at all, "empty"
\* is "", "blank" is whitespace only, "malformed" is text JSON.parse rejects,
\* "jsonnull" is the JSON literal null, "object" is a JSON object with the
\* fields of obj.
ValueText(kind, obj) == [kind |-> kind, obj |-> obj]
NoValue == ValueText("null", EmptyObj)

\* JSON.parse(valueText): throws on malformed text.
JSONparse(valueText) ==
    CASE valueText.kind = "object"   -> [threw |-> FALSE, isNull |-> FALSE, obj |-> valueText.obj]
      [] valueText.kind = "jsonnull" -> [threw |-> FALSE, isNull |-> TRUE, obj |-> EmptyObj]
      [] OTHER                       -> [threw |-> TRUE, isNull |-> FALSE, obj |-> EmptyObj]

\* Lines 41-46: extra = {}, replaced by the parse when valueText is non-blank
\* and parses; the catch swallows the parse error.
ParseExtra(valueText) ==
    IF valueText.kind \in {"null", "empty", "blank"}
    THEN [isNull |-> FALSE, obj |-> EmptyObj]
    ELSE LET r == JSONparse(valueText)
         IN  IF r.threw THEN [isNull |-> FALSE, obj |-> EmptyObj]
             ELSE [isNull |-> r.isNull, obj |-> r.obj]

\* A faulty precedence: the value payload's fileName before the metadata's.
fileNameOfExtraFirst(m, extra, keyName) ==
    IF Truthy(extra.fileName) THEN extra.fileName
    ELSE IF Truthy(m.fileName) THEN m.fileName
    ELSE FStr(keyName)

\* Line 49: m.fileName || extra.fileName || keyName
fileNameOf(m, extra, keyName) ==
    IF Truthy(m.fileName) THEN m.fileName
    ELSE IF Truthy(extra.fileName) THEN extra.fileName
    ELSE FStr(keyName)

\* Line 50: m.TimeStamp != null ? m.TimeStamp
\*                              : (extra.uploadTime ?? extra.TimeStamp ?? null)
uploadTimeOf(m, extra) ==
    IF m.TimeStamp # TNull THEN m.TimeStamp
    ELSE IF extra.uploadTime # TNull THEN extra.uploadTime
    ELSE extra.TimeStamp

\* Line 55: the coercion of the resolved timestamp.
CoerceTime(t) ==
    IF t # TNull THEN (IF t.k = "num" THEN t ELSE parseInt(t)) ELSE TNull

NoItem == [raised |-> FALSE, built |-> FALSE, key |-> "", fileName |-> FNone,
           uploadTime |-> TNull, storageType |-> FNone]

\* buildItem.  Reading a property of null throws a TypeError: with extra
\* null, line 49 throws when m.fileName is falsy (extra.fileName is then
\* evaluated) and line 50 throws when m.TimeStamp is null.  The url field
\* (origin and percent-encoded key) is not modelled.
buildItem(origin, keyName, metadata, valueText) ==
    LET extra == ParseExtra(valueText)
        m == MetaOrEmpty(metadata)
    IN  IF extra.isNull /\ (~Truthy(m.fileName) \/ m.TimeStamp = TNull)
        THEN [NoItem EXCEPT !.raised = TRUE]
        ELSE [raised |-> FALSE, built |-> TRUE, key |-> keyName,
              fileName |-> fileNameOf(m, extra.obj, keyName),
              uploadTime |-> CoerceTime(uploadTimeOf(m, extra.obj)),
              storageType |-> IF Truthy(m.storageType) THEN m.storageType ELSE FNone]

FileNames(s) == {FNone, FStr(""), FStr(s)}

Metas ==
    {NoMeta} \cup
    { [has |-> TRUE, fileName |-> f, TimeStamp |-> t, storageType |-> st] :
        f \in FileNames("a"), t \in {TNull, TNum(5), TStr(7), TStr(-1)},
        st \in {FNone, FStr("telegram")} }

ValueObjs ==
    { [fileName |-> f, uploadTime |-> u, TimeStamp |-> t] :
        f \in FileNames("b"), u \in {TNull, TNum(9), TStr(8)}, t \in {TNull, TNum(4)} }

ValueTexts ==
    { ValueText(k, EmptyObj) : k \in {"null", "empty", "blank", "malformed", "jsonnull"} }
    \cup { ValueText("object", o) : o \in ValueObjs }

NormIdle ==
    /\ nmIn = [key |-> "", metadata |-> NoMeta, value |-> NoValue]
    /\ nmOut = NoItem

NormInit ==
    /\ nmIn \in [key : {"k1"}, metadata : Metas, value : ValueTexts]
    /\ nmOut = NoItem

\* onRequestGet, lines 97-99, for one fetched record.
Normalize ==
    /\ ~nmOut.built /\ ~nmOut.raised
    /\ nmOut' = buildItem("origin", nmIn.key, nmIn.metadata, nmIn.value)
    /\ UNCHANGED <<nmIn, photoVars, listVars, postVars>>

-----------------------------------------------------------------------------
(* Credentials.  A string is a sequence of one-character strings, so that  *)
(* startsWith, slice and trim act on its characters.                       *)

\* A parameter, header or binding that is not there (null / undefined).
UNSET == <<"<unset>">>

Bearer == <<"B", "e", "a", "r", "e", "r", " ">>

StartsWith(s, p) == Len(s) >= Len(p) /\ SubSeq(s, 1, Len(p)) = p
\* s.slice(n)
Slice(s, n) == SubSeq(s, n + 1, Len(s))

RECURSIVE TrimLeft(_)
TrimLeft(s) == IF s # <<>> /\ Head(s) = " " THEN TrimLeft(Tail(s)) ELSE s
RECURSIVE TrimRight(_)
TrimRight(s) ==
    IF s # <<>> /\ s[Len(s)] = " " THEN TrimRight(SubSeq(s, 1, Len(s) - 1)) ELSE s
Trim(s) == TrimRight(TrimLeft(s))

\* env.BASIC_PASS == null || env.BASIC_PASS === ""
NoSecret(BASIC_PASS) == BASIC_PASS = UNSET \/ BASIC_PASS = <<>>

Secrets == {UNSET, <<>>, <<"s">>}
Pwds == {UNSET, <<>>, <<"s">>, <<"x">>}

-----------------------------------------------------------------------------
(* The store as the listing handler sees it.                               *)

\* No cursor: undefined or null, falsy.  A cursor the store hands out is an
\* opaque non-empty string, truthy; the token for "pos keys were already
\* enumerated" is pos + 1.
NoCursor == 0
CursorAt(pos) == pos + 1
PosOf(cursor) == IF cursor = NoCursor THEN 0 ELSE cursor - 1

KeyName(i) == "k" \o ToString(i)
\* The store's enumeration order.
StoreKeys(n) == [i \in 1..n |-> KeyName(i)]

StoreIndex(name) == CHOOSE i \in 1..MaxKeys : KeyName(i) = name

\* What the store holds for its i-th key: metadata and value are present or
\* absent independently (all four combinations, by position).
StoreRecord(i) ==
    [metadata |-> IF i % 2 = 1
                  THEN [has |-> TRUE, fileName |-> FStr("a"), TimeStamp |-> TNum(5),
                        storageType |-> FStr("telegram")]
                  ELSE NoMeta,
     value |-> IF i % 4 \in {2, 3}
               THEN ValueText("object", [fileName |-> FStr("b"), uploadTime |-> TNum(9),
                                         TimeStamp |-> TNull])
               ELSE NoValue]

\* The answers kv.list({limit, cursor}) may give with n keys in the store:
\* some keys from the cursor's position on, at most limit of them and at
\* least one while keys remain; a page that reaches the end reports
\* list_complete, or reports it only on the next (empty) page.
ListAnswers(n, limit, cursor) ==
    LET pos == PosOf(cursor)
        rest == n - pos
    IN  IF rest = 0
        THEN { [keys |-> <<>>, list_complete |-> TRUE, cursor |-> NoCursor] }
        ELSE { [keys |-> SubSeq(StoreKeys(n), pos + 1, pos + x[1]),
                list_complete |-> x[2],
                cursor |-> IF x[2] THEN NoCursor ELSE CursorAt(pos + x[1])] :
               x \in { y \in (1..Min(limit, rest)) \X BOOLEAN : y[2] => y[1] = rest } }

\* The message of an error a store or network call is rejected with; an
\* Error constructed without a message has the empty one.
ErrorMessages == {"", "kv error"}

-----------------------------------------------------------------------------
(* The listing handler (part_000 28-37, 61-109).                           *)

NoAnswer == [keys |-> <<>>, list_complete |-> FALSE, cursor |-> NoCursor]
NoFailure == [kind |-> "none", msg |-> ""]
NoListResp == [status |-> 0, error |-> "", list |-> <<>>, total |-> 0]

\* Lines 81-86: the request passes unless a secret is set and pwd differs.
ListAuthorized(BASIC_PASS, pwd) == NoSecret(BASIC_PASS) \/ pwd = BASIC_PASS

\* A faulty walker: it stops after the first page.
NextCursorOfFirstPage(answer) == NoCursor

\* Line 34: nextCursor = result.list_complete ? null : result.cursor
NextCursorOf(answer) == IF answer.list_complete THEN NoCursor ELSE answer.cursor

\* A faulty slice: everything from i on.
BatchOfRest(names, i) == [j \in 1..(Len(names) - i) |-> i + j]

\* Line 64: keyNames.slice(i, i + BATCH_SIZE), as the indices (from 1) of
\* the names it holds.
BatchOf(names, i) == [j \in 1..(Min(i + BATCH_SIZE, Len(names)) - i) |-> i + j]

Range(s) == { s[j] : j \in 1..Len(s) }

\* A faulty gathering: values in the order the promises settled.
PromiseAllBySettling(batch, settled, order) ==
    LET mine == SubSeq(order, Len(order) - Len(batch) + 1, Len(order))
    IN  [j \in 1..Len(batch) |-> settled[mine[j]]]

\* Lines 65-70: Promise.all resolves to the promises' values in the order of
\* the promises, whatever the order they settled in.
PromiseAll(batch, settled, order) == [j \in 1..Len(batch) |-> settled[batch[j]]]

\* A faulty catch: the error's message is dropped.
ErrorMessageGeneric(msg) == "Internal error"

\* Line 107: e.message || "Internal error"
ErrorMessageOf(msg) == IF msg # "" THEN msg ELSE "Internal error"

\* Lines 97-104, and the catch when buildItem throws.
ListResponse(fetched_) ==
    LET list == [j \in 1..Len(fetched_) |->
                   buildItem("origin", fetched_[j].name, fetched_[j].metadata,
                             fetched_[j].value)]
    IN  IF \E j \in 1..Len(list) : list[j].raised
        THEN [status |-> 500, error |-> ErrorMessageOf("TypeError"),
              list |-> <<>>, total |-> 0]
        ELSE [status |-> 200, error |-> "", list |-> list, total |-> Len(list)]

ListIdle ==
    /\ lreq = [BASIC_PASS |-> UNSET, pwd |-> UNSET, kvBound |-> FALSE,
               cursor |-> NoCursor, n |-> 0]
    /\ lpc = "idle"
    /\ keys = <<>> /\ nextCursor = NoCursor /\ lastList = NoAnswer
    /\ listCalls = <<>> /\ keyNames = <<>> /\ bi = 0 /\ results = <<>>
    /\ slots = <<>> /\ inflight = {} /\ getCalls = <<>> /\ batches = <<>>
    /\ doneOrder = <<>> /\ failure = NoFailure /\ lresp = NoListResp

\* A request: the configured secret, the pwd and cursor parameters, whether
\* env.img_url is bound, and the store with its n keys.  A cursor parameter
\* is absent or a cursor the store hands out.
ListRequests ==
    { r \in [BASIC_PASS : Secrets, pwd : Pwds, kvBound : BOOLEAN,
             cursor : {NoCursor} \cup {CursorAt(p) : p \in 1..MaxKeys},
             n : 0..MaxKeys] :
        PosOf(r.cursor) <= r.n }

ListInit ==
    /\ lreq \in ListRequests
    /\ lpc = "start"
    /\ keys = <<>> /\ nextCursor = NoCursor /\ lastList = NoAnswer
    /\ listCalls = <<>> /\ keyNames = <<>> /\ bi = 0 /\ results = <<>>
    /\ slots = <<>> /\ inflight = {} /\ getCalls = [k \in 1..lreq.n |-> 0]
    /\ batches = <<>> /\ doneOrder = <<>> /\ failure = NoFailure
    /\ lresp = NoListResp

\* fetchAllWithMetadata from loop index i on, with the results so far and
\* the calls fl still in flight: the loop ends and the response is built, or
\* the next batch is issued (batch.map starts every call of the batch before
\* the await of line 65 suspends).
FetchFrom(names, i, res, fl) ==
    IF i < Len(names)
    THEN LET batch == BatchOf(names, i)
         IN  /\ lpc' = "fetch"
             /\ bi' = i
             /\ inflight' = fl \cup Range(batch)
             /\ getCalls' = [k \in DOMAIN getCalls |->
                               getCalls[k] + Cardinality({j \in 1..Len(batch) : batch[j] = k})]
             /\ batches' = Append(batches, batch)
             /\ lresp' = lresp
    ELSE /\ lpc' = "done"
         /\ bi' = i
         /\ inflight' = fl
         /\ lresp' = ListResponse(res)
         /\ UNCHANGED <<getCalls, batches>>

\* onRequestGet up to its first await (lines 76-94): the credential and
\* binding tests, then listAllKeys' first kv.list call.
GetStart ==
    /\ lpc = "start"
    /\ IF ~ListAuthorized(lreq.BASIC_PASS, lreq.pwd)
       THEN /\ lresp' = [NoListResp EXCEPT !.status = 401, !.error = "Unauthorized"]
            /\ lpc' = "done"
            /\ UNCHANGED <<nextCursor, listCalls>>
       ELSE IF ~lreq.kvBound
       THEN /\ lresp' = [NoListResp EXCEPT !.status = 500,
                            !.error = "KV namespace img_url not configured"]
            /\ lpc' = "done"
            /\ UNCHANGED <<nextCursor, listCalls>>
       ELSE /\ lpc' = "list"
            /\ nextCursor' = lreq.cursor
            /\ listCalls' = <<lreq.cursor>>
            /\ UNCHANGED lresp
    /\ UNCHANGED <<lreq, keys, lastList, keyNames, bi, results, slots, inflight,
                   getCalls, batches, doneOrder, failure>>
    /\ UNCHANGED <<photoVars, normVars, postVars>>

\* kv.list resolves (lines 32-35); when the walk ends, onRequestGet goes on
\* into fetchAllWithMetadata (lines 94-95, 62-65).
ListPage ==
    /\ lpc = "list"
    /\ \E answer \in ListAnswers(lreq.n, LIST_PAGE_SIZE, nextCursor) :
         LET allKeys == keys \o answer.keys
             next == NextCursorOf(answer)
         IN  /\ lastList' = answer
             /\ keys' = allKeys
             /\ nextCursor' = next
             /\ IF next # NoCursor
                THEN /\ listCalls' = Append(listCalls, next)
                     /\ UNCHANGED <<lpc, keyNames, bi, inflight, getCalls, batches, lresp>>
                ELSE /\ keyNames' = allKeys
                     /\ FetchFrom(allKeys, 0, <<>>, inflight)
                     /\ UNCHANGED listCalls
    /\ UNCHANGED <<lreq, results, slots, doneOrder, failure>>
    /\ UNCHANGED <<photoVars, normVars, postVars>>

\* The error e reaches the catch of lines 105-108.
Caught(kind, msg) ==
    /\ failure' = [kind |-> kind, msg |-> msg]
    /\ lresp' = [NoListResp EXCEPT !.status = 500, !.error = ErrorMessageOf(msg)]
    /\ lpc' = "done"

\* kv.list rejects.
ListFail ==
    /\ lpc = "list"
    /\ \E msg \in ErrorMessages : Caught("list", msg)
    /\ UNCHANGED <<lreq, keys, nextCursor, lastList, listCalls, keyNames, bi,
                   results, slots, inflight, getCalls, batches, doneOrder>>
    /\ UNCHANGED <<photoVars, normVars, postVars>>

\* Line 68: { name, value: r?.value ?? null, metadata: r?.metadata ?? null }
Fetched(names, k) ==
    [name |-> names[k], value |-> StoreRecord(StoreIndex(names[k])).value,
     metadata |-> StoreRecord(StoreIndex(names[k])).metadata]

\* One getWithMetadata call resolves (lines 67-68); when it is the batch's
\* last, Promise.all resolves and the loop goes on (lines 71, 63).
GetResolve ==
    /\ lpc = "fetch"
    /\ \E k \in inflight :
         LET settled == (k :> Fetched(keyNames, k)) @@ slots
             order == Append(doneOrder, k)
             fl == inflight \ {k}
             batch == batches[Len(batches)]
         IN  /\ doneOrder' = order
             /\ IF Range(batch) \cap fl # {}
                THEN /\ slots' = settled
                     /\ inflight' = fl
                     /\ UNCHANGED <<lpc, bi, results, getCalls, batches, lresp>>
                ELSE LET all == results \o PromiseAll(batch, settled, order)
                     IN  /\ slots' = <<>>
                         /\ results' = all
                         /\ FetchFrom(keyNames, bi + BATCH_SIZE, all, fl)
    /\ UNCHANGED <<lreq, keys, nextCursor, lastList, listCalls, keyNames, failure>>
    /\ UNCHANGED <<photoVars, normVars, postVars>>

\* One getWithMetadata call rejects: Promise.all rejects with its error,
\* which nothing catches before onRequestGet's catch.  The other calls of the
\* batch stay in flight.
GetReject ==
    /\ lpc = "fetch"
    /\ \E k \in inflight, msg \in ErrorMessages :
         /\ inflight' = inflight \ {k}
         /\ doneOrder' = Append(doneOrder, k)
         /\ Caught("get", msg)
    /\ UNCHANGED <<lreq, keys, nextCursor, lastList, listCalls, keyNames, bi,
                   results, slots, getCalls, batches>>
    /\ UNCHANGED <<photoVars, normVars, postVars>>

\* A call still in flight settles after the response was made; nothing
\* reads its outcome.
GetLate ==
    /\ lpc = "done"
    /\ \E k \in inflight :
         /\ inflight' = inflight \ {k}
         /\ doneOrder' = Append(doneOrder, k)
    /\ UNCHANGED <<lreq, lpc, keys, nextCursor, lastList, listCalls, keyNames, bi,
                   results, slots, getCalls, batches, failure, lresp>>
    /\ UNCHANGED <<photoVars, normVars, postVars>>

ListNext == GetStart \/ ListPage \/ ListFail \/ GetResolve \/ GetReject \/ GetLate

-----------------------------------------------------------------------------
(* The ingestion handler (upload_url.js 24-48, 79-178).                    *)

\* A faulty lookup: the header is read before the pwd parameter.
getPasswordHeaderFirst(pwd, auth) ==
    IF auth # UNSET /\ auth # <<>> /\ StartsWith(auth, Bearer)
    THEN Trim(Slice(auth, 7))
    ELSE IF pwd # UNSET /\ pwd # <<>> THEN pwd
    ELSE UNSET

\* Lines 24-31: the pwd parameter when it is there and non-empty, else the
\* trimmed rest of an Authorization header that starts with "Bearer ", else
\* null.
getPassword(pwd, auth) ==
    IF pwd # UNSET /\ pwd # <<>> THEN pwd
    ELSE IF auth # UNSET /\ auth # <<>> /\ StartsWith(auth, Bearer)
    THEN Trim(Slice(auth, 7))
    ELSE UNSET

\* Lines 34-38.
checkAuth(BASIC_PASS, pwd, auth) ==
    IF NoSecret(BASIC_PASS) THEN TRUE
    ELSE getPassword(pwd, auth) = BASIC_PASS

Auths == {UNSET,
          Bearer \o <<"s">>,
          Bearer \o <<" ", "s", " ">>,
          Bearer \o <<"x">>,
          <<"B", "a", "s", "i", "c", " ", "s">>}

\* An item's url: undefined, a number, or a string.  A string url is known
\* by its name v and by the suffix ext of its path ("" when the path has
\* none, or when the string does not parse as a URL).
UrlUndef == [t |-> "undef", v |-> "", ext |-> ""]
UrlNum == [t |-> "num", v |-> "5", ext |-> ""]
UrlStr(v, ext) == [t |-> "str", v |-> v, ext |-> ext]

\* An element of body.list: null, or an object with a url.  The title, which
\* goes into the caption and the file name only, is not modelled.
NullItem == [isNull |-> TRUE, url |-> UrlUndef]
Item(url) == [isNull |-> FALSE, url |-> url]

Items == {NullItem, Item(UrlUndef), Item(UrlNum),
          Item(UrlStr("u1", "PNG")), Item(UrlStr("u2", ""))}

ItemLists == UNION { [1..n -> Items] : n \in 0..MaxItems }

\* The request body: text that is not JSON, JSON without an array "list",
\* or JSON with the array list.
Bodies ==
    { [kind |-> k, list |-> <<>>] : k \in {"badjson", "nolist"} }
    \cup { [kind |-> "list", list |-> l] : l \in ItemLists }

\* toLowerCase on the suffixes in use.
ToLowerCase(e) == IF e = "PNG" THEN "png" ELSE e

\* Lines 41-48.
getExtensionFromUrl(url) == IF url.ext # "" THEN ToLowerCase(url.ext) ELSE "jpg"

\* Line 81: !imageUrl || typeof imageUrl !== "string"
InvalidUrl(url) == url.t # "str" \/ url.v = ""

\* What the bot API's response body parses to.
NoResult == [message_id |-> 0, hasPhoto |-> FALSE, photo |-> <<>>]
Data(ok, description, hasResult, result) ==
    [ok |-> ok, description |-> description, hasResult |-> hasResult, result |-> result]

TelegramResults ==
    { [message_id |-> 7, hasPhoto |-> FALSE, photo |-> <<>>],
      [message_id |-> 7, hasPhoto |-> TRUE, photo |-> <<>>],
      [message_id |-> 7, hasPhoto |-> TRUE,
       photo |-> <<[file_id |-> NoFileId, file_size |-> 10]>>],
      [message_id |-> 7, hasPhoto |-> TRUE,
       photo |-> <<[file_id |-> 1, file_size |-> 100], [file_id |-> 2, file_size |-> 300]>>] }

TelegramData ==
    { Data(FALSE, "", FALSE, NoResult),
      Data(FALSE, "Bad Request: wrong file identifier", FALSE, NoResult),
      Data(TRUE, "", FALSE, NoResult) }
    \cup { Data(TRUE, "", TRUE, r) : r \in TelegramResults }

NoPostResp == [status |-> 0, error |-> "", results |-> <<>>, raised |-> FALSE]
\* An exception left onRequestPost: the handler made no response.
Raised(msg) == [status |-> 0, error |-> msg, results |-> <<>>, raised |-> TRUE]
PostError(message, status) ==
    [status |-> status, error |-> message, results |-> <<>>, raised |-> FALSE]

Failed(url, error) == [url |-> url, success |-> FALSE, error |-> error, src |-> <<>>]
Succeeded(url, key) == [url |-> url, success |-> TRUE, error |-> "", src |-> <<"origin", "file", key>>]

NoCur == [kvKey |-> <<NoFileId, "">>, error |-> ""]

RECURSIVE RunFrom(_, _, _)
\* The loop of lines 172-175 from item i on, with the results so far, up to
\* the next await that waits for the outside: processOne's lines 80-98 for
\* each item, and line 177 after the last.
RunFrom(list, i, res) ==
    IF i > Len(list)
    THEN [pc |-> "done", idx |-> i, res |-> res,
          resp |-> [status |-> 200, error |-> "", results |-> res, raised |-> FALSE]]
    ELSE IF list[i].isNull
    THEN [pc |-> "done", idx |-> i, res |-> res, resp |-> Raised("TypeError")]
    ELSE IF InvalidUrl(list[i].url)
    THEN RunFrom(list, i + 1, Append(res, Failed(list[i].url, "missing or invalid url")))
    ELSE [pc |-> "fetch", idx |-> i, res |-> res, resp |-> NoPostResp]

\* The handler moves on as RunFrom says; reaching a fetch issues it.
Continue(r) ==
    /\ ppc' = r.pc
    /\ pidx' = r.idx
    /\ pres' = r.res
    /\ presp' = r.resp
    /\ fetched' = IF r.pc = "fetch" THEN [fetched EXCEPT ![r.idx] = @ + 1] ELSE fetched

\* Line 100: e.message || "network error"
NetworkErrorOf(msg) == IF msg # "" THEN msg ELSE "network error"

\* Lines 110-119: the error the parsed response leads to, "" for none.
ErrorOfData(data) ==
    IF ~data.ok \/ ~data.hasResult
    THEN (IF data.description # "" THEN data.description ELSE "Telegram API error")
    ELSE IF getFileIdFromPhoto(data.result) = NoFileId
    THEN "no file_id in response"
    ELSE ""

\* A faulty order: the store write comes before the error returns.
WritesRecordFirst(error, kvBound) == kvBound

\* Lines 110-127: the put is reached past the error returns, and made when
\* env.img_url is bound.
WritesRecord(error, kvBound) == error = "" /\ kvBound

PostIdle ==
    /\ preq = [BASIC_PASS |-> UNSET, pwd |-> UNSET, auth |-> UNSET,
               botConfigured |-> FALSE, kvBound |-> FALSE,
               body |-> [kind |-> "nolist", list |-> <<>>]]
    /\ ppc = "idle" /\ pidx = 0 /\ pres = <<>> /\ pcur = NoCur
    /\ fetched = <<>> /\ puts = <<>> /\ kvStore = {} /\ presp = NoPostResp

PostRequests ==
    [BASIC_PASS : Secrets, pwd : Pwds, auth : Auths,
     botConfigured : BOOLEAN, kvBound : BOOLEAN, body : Bodies]

PostInit ==
    /\ preq \in PostRequests
    /\ ppc = "start" /\ pidx = 0 /\ pres = <<>> /\ pcur = NoCur
    /\ fetched = [i \in 1..Len(preq.body.list) |-> 0]
    /\ puts = [i \in 1..Len(preq.body.list) |-> 0]
    /\ kvStore = {} /\ presp = NoPostResp

Answer(resp) ==
    /\ ppc' = "done"
    /\ presp' = resp
    /\ UNCHANGED <<pidx, pres, fetched>>

\* onRequestPost up to the first sendPhoto call (lines 145-173, 80-98).
PostStart ==
    /\ ppc = "start"
    /\ IF ~checkAuth(preq.BASIC_PASS, preq.pwd, preq.auth)
       THEN Answer(PostError("Unauthorized", 401))
       ELSE IF ~preq.botConfigured
       THEN Answer(PostError("TG_Bot_Token or TG_Chat_ID not configured", 500))
       ELSE IF preq.body.kind = "badjson"
       THEN Answer(PostError("Invalid JSON body", 400))
       ELSE IF preq.body.kind # "list" \/ Len(preq.body.list) = 0
       THEN Answer(PostError("body must be { list: [ { url, title? } ] } with at least one item", 400))
       ELSE Continue(RunFrom(preq.body.list, 1, <<>>))
    /\ UNCHANGED <<preq, pcur, puts, kvStore>>
    /\ UNCHANGED <<photoVars, normVars, listVars>>

\* fetch rejects (lines 99-101): the item fails, the loop goes on.
FetchReject ==
    /\ ppc = "fetch"
    /\ \E msg \in ErrorMessages :
         Continue(RunFrom(preq.body.list, pidx + 1,
                          Append(pres, Failed(preq.body.list[pidx].url, NetworkErrorOf(msg)))))
    /\ UNCHANGED <<preq, pcur, puts, kvStore>>
    /\ UNCHANGED <<photoVars, normVars, listVars>>

\* fetch resolves: res.json() is awaited (line 105).
FetchResolve ==
    /\ ppc = "fetch"
    /\ ppc' = "json"
    /\ UNCHANGED <<preq, pidx, pres, pcur, fetched, puts, kvStore, presp>>
    /\ UNCHANGED <<photoVars, normVars, listVars>>

\* res.json() rejects (lines 106-108).
JsonReject ==
    /\ ppc = "json"
    /\ Continue(RunFrom(preq.body.list, pidx + 1,
                        Append(pres, Failed(preq.body.list[pidx].url,
                                            "invalid response from Telegram"))))
    /\ UNCHANGED <<preq, pcur, puts, kvStore>>
    /\ UNCHANGED <<photoVars, normVars, listVars>>

\* res.json() resolves (lines 110-142): an error result, or the put is
\* issued, or (without a store) the success result.
JsonResolve ==
    /\ ppc = "json"
    /\ \E data \in TelegramData :
         LET url == preq.body.list[pidx].url
             error == ErrorOfData(data)
             kvKey == <<getFileIdFromPhoto(data.result), getExtensionFromUrl(url)>>
         IN  IF WritesRecord(error, preq.kvBound)
             THEN /\ ppc' = "put"
                  /\ pcur' = [kvKey |-> kvKey, error |-> error]
                  /\ puts' = [puts EXCEPT ![pidx] = @ + 1]
                  /\ UNCHANGED <<pidx, pres, fetched, presp>>
             ELSE /\ Continue(RunFrom(preq.body.list, pidx + 1,
                        Append(pres, IF error # "" THEN Failed(url, error)
                                     ELSE Succeeded(url, kvKey))))
                  /\ UNCHANGED <<pcur, puts>>
    /\ UNCHANGED <<preq, kvStore>>
    /\ UNCHANGED <<photoVars, normVars, listVars>>

\* The put resolves (lines 138-142).
PutResolve ==
    /\ ppc = "put"
    /\ kvStore' = kvStore \cup {pcur.kvKey}
    /\ LET url == preq.body.list[pidx].url
       IN  Continue(RunFrom(preq.body.list, pidx + 1,
                Append(pres, IF pcur.error # "" THEN Failed(url, pcur.error)
                             ELSE Succeeded(url, pcur.kvKey))))
    /\ pcur' = NoCur
    /\ UNCHANGED <<preq, puts>>
    /\ UNCHANGED <<photoVars, normVars, listVars>>

\* The put rejects: nothing catches the error, in processOne or in
\* onRequestPost.
PutReject ==
    /\ ppc = "put"
    /\ \E msg \in ErrorMessages : Answer(Raised(msg))
    /\ UNCHANGED <<preq, pcur, puts, kvStore>>
    /\ UNCHANGED <<photoVars, normVars, listVars>>

PostNext ==
    PostStart \/ FetchReject \/ FetchResolve \/ JsonReject \/ JsonResolve
    \/ PutResolve \/ PutReject

InitPost == PostInit /\ PhotoIdle /\ NormIdle /\ ListIdle

SpecPost == InitPost /\ [][PostNext]_vars

InitList == ListInit /\ PhotoIdle /\ NormIdle /\ PostIdle

SpecList == InitList /\ [][ListNext]_vars

-----------------------------------------------------------------------------
(* Claims about the listing handler, verified under SpecList.              *)

\* listAllKeys has returned: its result went into fetchAllWithMetadata.
WalkReturned == lpc = "fetch" \/ lresp.status = 200 \/ failure.kind = "get"

\* The store's keys from the request's cursor on (all of them without one).
KeysFrom(cursor) == SubSeq(StoreKeys(lreq.n), PosOf(cursor) + 1, lreq.n)

\* C4: the Pagination Walker passes each list call the cursor the previous
\* call returned, goes on exactly while the store has not signalled list
\* completion, and returns the store's key names, each once, in enumeration
\* order, wherever the page boundaries fall: all K of them when the walk
\* starts without a cursor, those after the cursor's position otherwise.
C4_WalkReturnsEveryKey ==
    /\ lpc = "list" =>
         /\ listCalls[Len(listCalls)] = nextCursor
         /\ Len(listCalls) > 1 => ~lastList.list_complete /\ nextCursor = lastList.cursor
         /\ keys = SubSeq(StoreKeys(lreq.n), PosOf(lreq.cursor) + 1, PosOf(nextCursor))
    /\ WalkReturned =>
         /\ lastList.list_complete
         /\ keyNames = KeysFrom(lreq.cursor)
         /\ lreq.cursor = NoCursor =>
              /\ Len(keyNames) = lreq.n
              /\ \A i \in 1..lreq.n : keyNames[i] = KeyName(i)
         /\ \A i, j \in 1..Len(keyNames) : keyNames[i] = keyNames[j] => i = j

\* A walk over three pages or more, from the beginning, that returned at
\* least three keys.
C4_Witness ==
    /\ WalkReturned /\ lreq.cursor = NoCursor
    /\ Len(listCalls) >= 3 /\ Len(keyNames) >= 3
    /\ keyNames = StoreKeys(lreq.n)

CeilDiv(a, b) == (a + b - 1) \div b

\* C5: the Metadata Fetcher issues batches of contiguous keys, each of at
\* most BATCH_SIZE keys, Ceil(N / BATCH_SIZE) of them for N keys when it
\* completes; while a batch is being retrieved every retrieval of the earlier
\* batches has completed, so at most BATCH_SIZE calls are in flight.
C5_BatchesAreSequential ==
    /\ Cardinality(inflight) <= BATCH_SIZE
    /\ \A b \in 1..Len(batches) :
         /\ Len(batches[b]) = Min(BATCH_SIZE, Len(keyNames) - (b - 1) * BATCH_SIZE)
         /\ \A j \in 1..Len(batches[b]) : batches[b][j] = (b - 1) * BATCH_SIZE + j
    /\ \A b \in 1..(Len(batches) - 1) :
         \A k \in Range(batches[b]) : k \notin inflight /\ k \in Range(doneOrder)
    /\ lresp.status = 200 =>
         /\ Len(batches) = CeilDiv(Len(keyNames), BATCH_SIZE)
         /\ \A k \in 1..Len(keyNames) : getCalls[k] = 1

\* A completed fetch of three batches, the last one partial.
C5_Witness ==
    /\ lresp.status = 200
    /\ Len(batches) >= 3
    /\ Len(batches[Len(batches)]) < BATCH_SIZE

\* The listing record of a key: buildItem of what the store holds for it.
RecordOf(name) ==
    buildItem("origin", name, StoreRecord(StoreIndex(name)).metadata,
              StoreRecord(StoreIndex(name)).value)

\* C6: whatever the order in which the concurrent retrievals complete, the
\* i-th entry of the listing response is the record of the i-th key name the
\* Pagination Walker returned, and total is the number of keys walked.
C6_ListingFollowsKeyOrder ==
    /\ \A i \in 1..Len(results) : results[i].name = keyNames[i]
    /\ lresp.status = 200 =>
         /\ lresp.total = Len(keyNames)
         /\ Len(lresp.list) = Len(keyNames)
         /\ \A i \in 1..Len(keyNames) :
              /\ lresp.list[i].key = keyNames[i]
              /\ lresp.list[i] = RecordOf(keyNames[i])

\* A listing answered after a retrieval completed before one of an earlier
\* key did.
C6_Witness ==
    /\ lresp.status = 200
    /\ \E j \in 1..(Len(doneOrder) - 1) : doneOrder[j] > doneOrder[j + 1]

\* What is true of a failed listing apart from the message it carries.
FailedListing ==
    /\ lpc = "done"
    /\ lresp.status = 500
    /\ lresp.list = <<>> /\ lresp.total = 0
    /\ \A k \in DOMAIN getCalls : getCalls[k] <= 1
    /\ \A i, j \in 1..Len(listCalls) : listCalls[i] = listCalls[j] => i = j

\* C9 as claimed: a failed list call or metadata retrieval ends the request
\* with status 500 carrying the underlying error message, without a partial
\* list and without a retry.
C9_AsClaimed ==
    failure.kind # "none" => FailedListing /\ lresp.error = failure.msg

\* C9: a failed list call or metadata retrieval ends the request with status
\* 500, without a partial list and without a retry; the response carries the
\* underlying error message, or "Internal error" when that message is empty.
C9_ListingIsAllOrNothing ==
    failure.kind # "none" =>
        /\ FailedListing
        /\ lresp.error = IF failure.msg = "" THEN "Internal error" ELSE failure.msg

\* A retrieval of the second batch failed with a message, after the first
\* batch was retrieved.
C9_Witness ==
    /\ failure = [kind |-> "get", msg |-> "kv error"]
    /\ Len(batches) = 2 /\ Len(results) = BATCH_SIZE
    /\ lresp.status = 500 /\ lresp.error = "kv error"

-----------------------------------------------------------------------------
(* Claims about the photo-variant selection, verified under SpecPhoto.     *)

InitPhoto == PhotoInit /\ NormIdle /\ ListIdle /\ PostIdle

SpecPhoto == InitPhoto /\ [][SelectPhoto]_vars

MaxSizeOf(photo) ==
    CHOOSE s \in {SizeOr0(photo[i]) : i \in 1..Len(photo)} :
        \A i \in 1..Len(photo) : SizeOr0(photo[i]) <= s

LargestAt(photo) == {i \in 1..Len(photo) : SizeOr0(photo[i]) = MaxSizeOf(photo)}

\* The selection was made, of a result that has variants.
Selected == phOut.called /\ ~NoVariants(phIn)

\* C3 as claimed: the selected variant has the maximum file_size (a missing
\* size counting as 0) and is the earliest variant with that size.
C3_AsClaimed ==
    Selected =>
        /\ phOut.file_size = MaxSizeOf(phIn.photo)
        /\ phOut.file_id \in {phIn.photo[i].file_id : i \in LargestAt(phIn.photo)}
        /\ \A i \in LargestAt(phIn.photo) : phOut.file_id <= phIn.photo[i].file_id

\* C3: the selected variant, whose file_id and file_size are used, has the
\* maximum file_size (a missing size counting as 0) and is the latest variant
\* of the list with that size.
C3_LatestLargestSelected ==
    Selected =>
        /\ phOut.file_size = MaxSizeOf(phIn.photo)
        /\ phOut.file_id \in {phIn.photo[i].file_id : i \in LargestAt(phIn.photo)}
        /\ \A i \in LargestAt(phIn.photo) : phOut.file_id >= phIn.photo[i].file_id

\* The selection from sizes [100, 300, 300]: the third variant.
C3_Witness ==
    /\ Selected
    /\ Len(phIn.photo) = 3
    /\ phIn.photo[1].file_size = 100
    /\ phIn.photo[2].file_size = 300
    /\ phIn.photo[3].file_size = 300
    /\ phOut.file_id = 3 /\ phOut.file_size = 300

-----------------------------------------------------------------------------
(* Claims about the Record Normalizer, verified under SpecNorm.            *)

InitNorm == NormInit /\ PhotoIdle /\ ListIdle /\ PostIdle

SpecNorm == InitNorm /\ [][Normalize]_vars

\* buildItem was applied.
Normalized == nmOut.built \/ nmOut.raised

\* The fields a value payload carries: those of the JSON object it encodes,
\* none when there is no payload or it is not valid JSON.
PayloadFields(value) == IF value.kind = "object" THEN value.obj ELSE EmptyObj

\* The first of the three timestamps that is there, as an integer.
FirstTime(metadata, value) ==
    LET x == PayloadFields(value)
        t == CASE metadata.has /\ metadata.TimeStamp.k # "null" -> metadata.TimeStamp
               [] OTHER -> CASE x.uploadTime.k # "null" -> x.uploadTime
                             [] x.TimeStamp.k # "null" -> x.TimeStamp
                             [] OTHER -> TNull
    IN  CASE t.k = "str" /\ t.n >= 0 -> TNum(t.n)
          [] t.k = "str" /\ t.n < 0 -> NaN
          [] OTHER -> t

-----------------------------------------------------------------------------
(* Claims about the ingestion handler, verified under SpecPost.            *)

\* Every element of the list is an object (none is null).
ProperItems == \A i \in 1..Len(preq.body.list) : ~preq.body.list[i].isNull

\* C1: processing an item never raises: whatever step fails (also the store
\* write), the outcome is a result with success = false and a non-empty
\* error, never an exception that leaves processOne and onRequestPost.
C1_ProcessOneNeverRaises ==
    ProperItems =>
        /\ ~presp.raised
        /\ \A i \in 1..Len(pres) : ~pres[i].success => pres[i].error # ""

\* The request passed the tests that precede the loop over the N items.
Accepted ==
    /\ checkAuth(preq.BASIC_PASS, preq.pwd, preq.auth)
    /\ preq.botConfigured
    /\ preq.body.kind = "list" /\ Len(preq.body.list) > 0

\* C2: an authorized POST with configured bot credentials and a non-empty
\* list of N items is answered with status 200 and N results, results[i]
\* echoing list[i].url, whatever items fail.
C2_OneResultPerItem ==
    ppc = "done" /\ Accepted /\ ProperItems =>
        /\ presp.status = 200
        /\ Len(presp.results) = Len(preq.body.list)
        /\ \A i \in 1..Len(preq.body.list) : presp.results[i].url = preq.body.list[i].url

\* C8: no put was issued for an item whose result has success = false, and
\* every key written to the store belongs to an item whose result has
\* success = true.
C8_NoWriteOnFailure ==
    /\ \A i \in 1..Len(pres) : ~pres[i].success => puts[i] = 0
    /\ \A key \in kvStore :
         \E i \in 1..Len(pres) : pres[i].success /\ pres[i].src[3] = key /\ puts[i] = 1

\* A request whose first item the bot API rejected, without a put, and whose
\* second item was written and succeeded.
C8_Witness ==
    /\ presp.status = 200 /\ Len(pres) = 2
    /\ ~pres[1].success /\ pres[1].error = "Bad Request: wrong file identifier"
    /\ fetched[1] = 1 /\ puts[1] = 0
    /\ pres[2].success /\ puts[2] = 1 /\ pres[2].src[3] \in kvStore

-----------------------------------------------------------------------------
(* The claim about authorization, verified under Spec: one request, to     *)
(* either handler.                                                         *)

Init ==
    /\ PhotoIdle /\ NormIdle
    /\ \/ ListInit /\ PostIdle
       \/ PostInit /\ ListIdle

Next == ListNext \/ PostNext

Spec == Init /\ [][Next]_vars

\* The credential an ingestion request presents: the pwd parameter when it
\* is non-empty, otherwise the trimmed value of a Bearer header, if any.
Presented(pwd, auth) ==
    CASE pwd # UNSET /\ Len(pwd) > 0 -> pwd
      [] OTHER -> CASE auth # UNSET /\ StartsWith(auth, Bearer) ->
                         Trim(SubSeq(auth, Len(Bearer) + 1, Len(auth)))
                    [] OTHER -> UNSET

\* The secret S is set and the credential c is not S.
Mismatch(S, c) == S # UNSET /\ S # <<>> /\ c # S

\* C7: access is granted iff the secret is empty or absent or the presented
\* credential equals it, the presented credential being the pwd parameter
\* for listing and, for ingestion, the pwd parameter if non-empty, otherwise
\* the trimmed Bearer header value; a request that is not granted is
\* answered 401 and causes no store call and no remote call.
C7_GrantedIffCredentialMatches ==
    /\ lpc \notin {"idle", "start"} =>
         /\ lresp.status = 401 <=> Mismatch(lreq.BASIC_PASS, lreq.pwd)
         /\ lresp.status = 401 =>
              /\ lpc = "done"
              /\ listCalls = <<>> /\ inflight = {}
              /\ \A k \in DOMAIN getCalls : getCalls[k] = 0
    /\ ppc \notin {"idle", "start"} =>
         /\ presp.status = 401 <=>
              Mismatch(preq.BASIC_PASS, Presented(preq.pwd, preq.auth))
         /\ presp.status = 401 =>
              /\ ppc = "done"
              /\ kvStore = {}
              /\ \A i \in DOMAIN fetched : fetched[i] = 0 /\ puts[i] = 0

\* An ingestion request granted on a Bearer header that needed trimming,
\* its pwd parameter empty, whose first item reached the bot API.
C7_Witness ==
    /\ preq.BASIC_PASS = <<"s">> /\ preq.pwd = <<>>
    /\ preq.auth = Bearer \o <<" ", "s", " ">>
    /\ ppc = "done" /\ presp.status = 200
    /\ fetched[1] = 1

=============================================================================
